---- MODULE Spec2Model ----
(***************************************************************************)
(* Model of la_forge/diagnostics.py: the parameter selection of            *)
(* plot_chains, compute_neff, the Gelman-Rubin split R-hat (grubin) and    *)
(* the ground-truth loading and p-value computation of pp_plot.            *)
(*                                                                         *)
(* Every function is a stateless call: a specification draws the call's    *)
(* arguments in its initial state and one action runs the whole function   *)
(* and records what it returned or raised.                                 *)
(*                                                                         *)
(* Floating point values are modelled as exact rationals <<num, den>> in   *)
(* lowest terms with den > 0; x/0 is modelled as numpy computes it         *)
(* (inf for x > 0, nan for 0/0).                                           *)
(***************************************************************************)
EXTENDS Integers, Sequences, FiniteSets, TLC

\* pc:   "call" before the function body runs, "done" once it has returned
\*       or raised
\* args: the arguments of the call (args.fn names the function)
\* ret:  what the call returned or raised, with the locals the properties
\*       read
VARIABLES pc, args, ret

vars == <<pc, args, ret>>

None == "None"

----------------------------------------------------------------------------
(* Bounds of the model *)

MaxRows == 5      \* rows of the combined sample matrix handed to grubin
MaxM == 3         \* largest split count M
MaxFolders == 2   \* realization folders under chainfolder
MaxLen == 4       \* samples per realization chain
MaxCores == 2     \* cores in the list handed to plot_chains
MaxNames == 2     \* length of a parameter list (params, pars, exclude)
MaxSamples == 2   \* samples of a chain handed to compute_neff

----------------------------------------------------------------------------
(* Rational arithmetic standing for numpy's float arithmetic *)

Abs(x) == IF x < 0 THEN -x ELSE x

RECURSIVE GCD(_, _)
GCD(a, b) == IF b = 0 THEN a ELSE GCD(b, a % b)

Rat(n, d) ==
    LET g == GCD(Abs(n), Abs(d))
        s == IF d < 0 THEN -1 ELSE 1
    IN <<(s * n) \div g, (s * d) \div g>>

RAdd(x, y) == Rat(x[1] * y[2] + y[1] * x[2], x[2] * y[2])
RSub(x, y) == Rat(x[1] * y[2] - y[1] * x[2], x[2] * y[2])
RMul(x, y) == Rat(x[1] * y[1], x[2] * y[2])
RDiv(x, y) == Rat(x[1] * y[2], x[2] * y[1])
RLt(x, y) == x[1] * y[2] < y[1] * x[2]
RInt(n) == <<n, 1>>

RECURSIVE RSum(_)
RSum(s) == IF s = <<>> THEN RInt(0) ELSE RAdd(Head(s), RSum(Tail(s)))

----------------------------------------------------------------------------
(* grubin(core, M, threshold)                                   lines 368-416 *)

\* retained (physical) parameter columns of the sample matrix; the matrix has
\* two more, trailing, bookkeeping columns
ParIdx == 1..2
Vals == {0, 1}
\* lnpost, lnlike entries of the two trailing columns
Fillers == {<<-1, -2>>}
\* threshold=1.01, the default
Thresholds == {<<101, 100>>}

\* data = np.concatenate([core[0].chain, core[1].chain]) or core.chain
GrubinData(core) ==
    IF core.isList /\ Len(core.chains) = 2
    THEN core.chains[1] \o core.chains[2]
    ELSE core.chains[1]

\* np.split(ary, M) raises unless M divides the number of rows
SplitRaises(nrows, M) == nrows % M # 0

\* mutant: drops a single leading row whenever the split is uneven
GrubinBurnOne(R, M) ==
    IF ~SplitRaises(R, M) THEN 0 ELSE 0 + 1

\* the except branch: burn += len - burn - M*floor((len - burn)/M)
GrubinBurn(R, M) ==
    IF ~SplitRaises(R, M) THEN 0
    ELSE LET P == (R - 0) \div M
             X == R - 0 - M * P
         IN 0 + X

\* N = len(data[burn:, 0])
GrubinN(R, burn) == R - burn

\* np.split(data[burn:, :-2], M): block m, row n, column p
DataSplit(data, burn, M) ==
    LET len == (Len(data) - burn) \div M
    IN [m \in 1..M |-> [n \in 1..len |->
           [p \in 1..(Len(data[1]) - 2) |-> data[burn + (m - 1) * len + n][p]]]]

\* np.mean(data, axis=1)
ThetaBarDotM(ds) ==
    [m \in DOMAIN ds |-> [p \in DOMAIN ds[m][1] |->
        RDiv(RSum([n \in DOMAIN ds[m] |-> RInt(ds[m][n][p])]), RInt(Len(ds[m])))]]

\* np.mean(theta_bar_dotm, axis=0)
ThetaBarDotDot(tbm) ==
    [p \in DOMAIN tbm[1] |->
        RDiv(RSum([m \in DOMAIN tbm |-> tbm[m][p]]), RInt(Len(tbm)))]

Sq(x) == RMul(x, x)

\* B = N / (M - 1) * np.sum((theta_bar_dotm - theta_bar_dotdot)**2, axis=0)
BetweenVar(N, M, tbm, tbdd) ==
    [p \in DOMAIN tbdd |->
        RMul(RDiv(RInt(N), RInt(M - 1)),
             RSum([m \in DOMAIN tbm |-> Sq(RSub(tbm[m][p], tbdd[p]))]))]

\* sm_sq = 1 / (N - 1) * np.sum((data - theta_bar_dotm[:, None, :])**2, axis=1)
SmSq(N, ds, tbm) ==
    [m \in DOMAIN ds |-> [p \in DOMAIN tbm[m] |->
        RMul(RDiv(RInt(1), RInt(N - 1)),
             RSum([n \in DOMAIN ds[m] |-> Sq(RSub(RInt(ds[m][n][p]), tbm[m][p]))]))]]

\* W = 1 / M * np.sum(sm_sq, axis=0)
WithinVar(M, smsq) ==
    [p \in DOMAIN smsq[1] |->
        RMul(RDiv(RInt(1), RInt(M)), RSum([m \in DOMAIN smsq |-> smsq[m][p]]))]

\* mutant: the within-chain term loses its (N - 1) / N weight
VarPostUnweighted(N, W, B) ==
    [p \in DOMAIN W |-> RAdd(W[p], RMul(RDiv(RInt(1), RInt(N)), B[p]))]

\* var_post = (N - 1) / N * W + 1 / N * B
VarPost(N, W, B) ==
    [p \in DOMAIN W |->
        RAdd(RMul(RDiv(RInt(N - 1), RInt(N)), W[p]),
             RMul(RDiv(RInt(1), RInt(N)), B[p]))]

\* mutant: a zero within-chain variance always gives nan
RhatOfNanOnZero(vp, W) ==
    [p \in DOMAIN W |->
        IF W[p][1] # 0 THEN [kind |-> "num", sq |-> RDiv(vp[p], W[p])]
        ELSE [kind |-> "nan", sq |-> RInt(0)]]

\* Rhat = np.sqrt(var_post / W), kept as its square; var_post >= 0 and W >= 0
RhatOf(vp, W) ==
    [p \in DOMAIN W |->
        IF W[p][1] # 0 THEN [kind |-> "num", sq |-> RDiv(vp[p], W[p])]
        ELSE IF vp[p][1] # 0 THEN [kind |-> "inf", sq |-> RInt(0)]
        ELSE [kind |-> "nan", sq |-> RInt(0)]]

\* Rhat > threshold, for threshold > 0
RhatGt(r, thr) ==
    \/ r.kind = "inf"
    \/ r.kind = "num" /\ RLt(Sq(thr), r.sq)

\* idx = np.where(Rhat > threshold)[0], 0-based indices
ExceedIdx(Rhat, thr) == {p - 1 : p \in {q \in DOMAIN Rhat : RhatGt(Rhat[q], thr)}}

\* an ndarray: its entries are computed once, when the array is built
Array(f) == IF f = f THEN f ELSE f

GrubinResult(core, M, thr) ==
    LET data == GrubinData(core)
        R == Len(data)
        burn == GrubinBurn(R, M)
        N == GrubinN(R, burn)
        ds == Array(DataSplit(data, burn, M))
        tbm == Array(ThetaBarDotM(ds))
        tbdd == Array(ThetaBarDotDot(tbm))
        B == Array(BetweenVar(N, M, tbm, tbdd))
        smsq == Array(SmSq(N, ds, tbm))
        W == Array(WithinVar(M, smsq))
        vp == Array(VarPost(N, W, B))
        Rhat == Array(RhatOf(vp, W))
    IN [burn |-> burn, N |-> N, data_split |-> ds, B |-> B, W |-> W,
        var_post |-> vp, Rhat |-> Rhat, idx |-> ExceedIdx(Rhat, thr)]

\* a sample matrix: free retained columns, one filler pair for the two
\* trailing columns
Matrix(body, f) == [n \in DOMAIN body |-> body[n] \o f]

\* a single core (k = 0), or a list of two cores holding the first k and the
\* remaining rows, whose chains grubin concatenates
CoreOf(data, k) ==
    IF k = 0 THEN [isList |-> FALSE, chains |-> <<data>>]
    ELSE [isList |-> TRUE,
          chains |-> <<SubSeq(data, 1, k), SubSeq(data, k + 1, Len(data))>>]

\* rows of the first core of a list of two: one row, or half of the rows
FirstLens(r) == {0, 1, r \div 2}

\* the call's arguments, with at least M rows and M >= 2
InitGrubin ==
    /\ pc = "call"
    /\ \E r \in 2..MaxRows, M \in 2..MaxM, t \in Thresholds, f \in Fillers :
         \E body \in [1..r -> [ParIdx -> Vals]], k \in FirstLens(r) :
            /\ r >= M
            /\ args = [fn |-> "grubin", core |-> CoreOf(Matrix(body, f), k),
                       M |-> M, threshold |-> t]
    /\ ret = None

Grubin ==
    /\ pc = "call"
    /\ args.fn = "grubin"
    /\ ret' = GrubinResult(args.core, args.M, args.threshold)
    /\ pc' = "done"
    /\ UNCHANGED args

NextGrubin == Grubin

SpecGrubin == InitGrubin /\ [][NextGrubin]_vars


----------------------------------------------------------------------------
(* pp_plot(chainfolder, param)                                  lines 440-528 *)

\* The folders are those os.scandir reported as directories (line 450), so
\* the os.path.isdir test of line 460 passes for each; chains hold at least
\* one sample. sigma and the plotting calls (lines 505-527) read pvalues,
\* q and cdf only and are left out.
\*
\* A realization folder <name>_<num>: what its ans.json holds ("missing": no
\* readable ans.json; "param": the key param; "fallback": no key param but
\* the key gw_log10_A; "nokey": neither), the value read from it, whether its
\* pars.txt can be read, and the samples of param in its chain.
AnsKinds == {"missing", "param", "fallback", "nokey"}
Samples == {0, 1}
Truths == {0, 1}
DefaultChain == <<0, 1, 0, 1>>

\* list.remove(x): drops the first element equal to x
RECURSIVE ListRemove(_, _)
ListRemove(s, x) ==
    IF s = <<>> THEN <<>>
    ELSE IF Head(s) = x THEN Tail(s)
    ELSE <<Head(s)>> \o ListRemove(Tail(s), x)

\* for folder in subfolders: ... (lines 456-474). i is the 0-based position
\* of the list iterator, which is compared with the length of the list as it
\* is at that moment.
RECURSIVE LoadLoop(_, _, _)
LoadLoop(subfolders, i, st) ==
    IF i >= Len(subfolders) THEN [st EXCEPT !.subfolders = subfolders]
    ELSE
        LET folder == subfolders[i + 1]
            st1 == [st EXCEPT !.num_list = Append(@, folder.num),
                              !.visited = Append(@, folder.num)]
        IN CASE folder.ans = "missing" ->
                  LoadLoop(ListRemove(subfolders, folder), i + 1,
                           [st1 EXCEPT !.printed = Append(@, <<"skipped", folder.num>>)])
             [] folder.ans \in {"param", "fallback"} ->
                  LoadLoop(subfolders, i + 1,
                           [st1 EXCEPT !.answer_list = Append(@, folder.truth)])
             [] OTHER ->
                  [st1 EXCEPT !.subfolders = subfolders, !.raised = "KeyError"]

\* a = np.column_stack([num_array, answer_array]); a = a[a[:, 0].argsort()]
RECURSIVE SortedInsert(_, _)
SortedInsert(s, row) ==
    IF s = <<>> THEN <<row>>
    ELSE IF row[1] < Head(s)[1] THEN <<row>> \o s
    ELSE <<Head(s)>> \o SortedInsert(Tail(s), row)

RECURSIVE SortRows(_)
SortRows(rows) ==
    IF rows = <<>> THEN <<>>
    ELSE SortedInsert(SortRows(SubSeq(rows, 1, Len(rows) - 1)), rows[Len(rows)])

ColumnStack(num_list, answer_list) ==
    [i \in DOMAIN num_list |-> <<num_list[i], answer_list[i]>>]

\* slices.chain of SlicesCore(slicedirs=subfolders, pars2pull=[param]):
\* one column per slice directory, in the order of slicedirs
SlicesChain(subfolders) == [i \in DOMAIN subfolders |-> subfolders[i].chain]

\* burn = int(0.25 * len(slices.chain[:, 0]))
PPBurn(L) == (25 * L) \div 100

\* mutant: counts the samples at or below the truth
CountBelowWeak(col, burn, truth) ==
    Cardinality({j \in (burn + 1)..Len(col) : col[j] <= truth})

\* len(np.where(slices.chain[burn::tau, i] < a[i, 1])[0]), tau = 1
CountBelow(col, burn, truth) ==
    Cardinality({j \in (burn + 1)..Len(col) : col[j] < truth})

\* pvalues[i] = count / len(slices.chain[burn::tau, i])
PValues(chain, a) ==
    LET burn == PPBurn(Len(chain[1]))
    IN [i \in DOMAIN chain |->
          Rat(CountBelow(chain[i], burn, a[i][2]), Len(chain[i]) - burn)]

\* q = np.linspace(0, 1, num=len(pvalues))
Linspace01(num) ==
    [i \in 1..num |-> IF num = 1 THEN RInt(0) ELSE Rat(i - 1, num - 1)]

\* cdf[i] = len(np.where(pvalues < q[i])[0]) / len(pvalues)
Cdf(pvalues, q) ==
    [i \in DOMAIN q |->
        Rat(Cardinality({k \in DOMAIN pvalues : RLt(pvalues[k], q[i])}),
            Len(pvalues))]

PPPlotResult(scanned) ==
    LET st0 == [subfolders |-> scanned, num_list |-> <<>>, answer_list |-> <<>>,
                visited |-> <<>>, printed |-> <<>>, raised |-> None,
                pvalues |-> <<>>, q |-> <<>>, cdf |-> <<>>, outcome |-> None]
        st == LoadLoop(scanned, 0, st0)
    IN  IF st.raised # None THEN [st EXCEPT !.outcome = "KeyError"]
        ELSE IF Len(st.num_list) # Len(st.answer_list)
        THEN [st EXCEPT !.raised = "ValueError", !.outcome = "ValueError"]
        ELSE IF st.subfolders = <<>> \/ ~st.subfolders[1].pars
        THEN [st EXCEPT !.printed = Append(@, "Params file not found."),
                        !.outcome = "return None"]
        ELSE
            LET a == SortRows(ColumnStack(st.num_list, st.answer_list))
                chain == SlicesChain(st.subfolders)
            IN  IF Len(chain) # Len(st.answer_list)
                THEN [st EXCEPT !.printed = Append(@,
                          "Number of chains and number of truths are different."),
                        !.outcome = "return None"]
                ELSE
                    LET pvalues == PValues(chain, a)
                        q == Linspace01(Len(pvalues))
                    IN [st EXCEPT !.pvalues = pvalues, !.q = q,
                                  !.cdf = Cdf(pvalues, q), !.outcome = "return"]

\* The scanned folders, sorted by their numeric suffix: either any metadata
\* with one fixed chain, or sound metadata with any chain of a common length.
InitPP ==
    /\ pc = "call"
    /\ \E K \in 0..MaxFolders :
         \/ \E ans \in [1..K -> AnsKinds], truth \in [1..K -> Truths],
                pars \in [1..K -> BOOLEAN] :
               args = [fn |-> "pp_plot",
                       subfolders |-> [i \in 1..K |->
                           [num |-> i, ans |-> ans[i], truth |-> truth[i],
                            pars |-> pars[i], chain |-> DefaultChain]]]
         \/ \E L \in 1..MaxLen :
              \E truth \in [1..K -> Truths], chain \in [1..K -> [1..L -> Samples]] :
               args = [fn |-> "pp_plot",
                       subfolders |-> [i \in 1..K |->
                           [num |-> i, ans |-> "param", truth |-> truth[i],
                            pars |-> TRUE, chain |-> chain[i]]]]
    /\ ret = None

PPPlot ==
    /\ pc = "call"
    /\ args.fn = "pp_plot"
    /\ ret' = PPPlotResult(args.subfolders)
    /\ pc' = "done"
    /\ UNCHANGED args

NextPP == PPPlot

SpecPP == InitPP /\ [][NextPP]_vars

----------------------------------------------------------------------------
(* plot_chains(core, pars, exclude, ...): parameter selection,  lines 79-99 *)

\* The rendering that follows the selection (lines 101-170) is left out.

Names == {"a", "b", "c"}

NoDup(s) == \A i, j \in DOMAIN s : s[i] = s[j] => i = j
NameLists(names, n) ==
    UNION {{s \in [1..k -> names] : NoDup(s)} : k \in 0..n}

Elems(s) == {s[i] : i \in DOMAIN s}

\* params.intersection_update(c.params) for c in core, from params = set();
\* list(params) of the result, in increasing order of the names' position
\* in the first core
RECURSIVE IntersectionUpdate(_, _)
IntersectionUpdate(params, cores) ==
    IF cores = <<>> THEN params
    ELSE IntersectionUpdate(params \cap Elems(Head(cores).params), Tail(cores))

RECURSIVE ListOfSet(_, _)
ListOfSet(set, order) ==
    IF order = <<>> THEN <<>>
    ELSE (IF Head(order) \in set THEN <<Head(order)>> ELSE <<>>)
            \o ListOfSet(set, Tail(order))

\* for p in exclude: params.remove(p); list.remove raises ValueError for an
\* element that is not in the list
RECURSIVE RemoveAll(_, _)
RemoveAll(params, exclude) ==
    IF exclude = <<>> THEN [outcome |-> "return", params |-> params]
    ELSE IF Head(exclude) \notin Elems(params)
    THEN [outcome |-> "ValueError", params |-> params]
    ELSE RemoveAll(ListRemove(params, Head(exclude)), Tail(exclude))

\* params = [p for p in params if p in c.params] for c in core[1:]
RECURSIVE CommonParams(_, _)
CommonParams(params, cores) ==
    IF cores = <<>> THEN params
    ELSE CommonParams(SelectSeq(params, LAMBDA p : p \in Elems(Head(cores).params)),
                      Tail(cores))

\* an optional list argument: None, or a list
NoList == [isNone |-> TRUE, list |-> <<>>]
Given(l) == [isNone |-> FALSE, list |-> l]

SelectParams(core, pars, exclude) ==
    IF ~pars.isNone
    THEN [outcome |-> "return", params |-> pars.list]
    ELSE IF ~exclude.isNone /\ ~pars.isNone
    THEN [outcome |-> "ValueError", params |-> <<>>]
    ELSE IF ~exclude.isNone
    THEN LET params == IF core.isList
                       THEN ListOfSet(IntersectionUpdate({}, core.cores),
                                      core.cores[1].params)
                       ELSE core.cores[1].params
         IN RemoveAll(params, exclude.list)
    ELSE [outcome |-> "return",
          params |-> IF core.isList
                     THEN CommonParams(core.cores[1].params, Tail(core.cores))
                     ELSE core.cores[1].params]

InitPlot ==
    /\ pc = "call"
    /\ \E n \in 1..MaxCores, isList \in BOOLEAN :
         \E cores \in [1..n -> [params : NameLists(Names, MaxNames)]],
            pars \in {NoList} \cup {Given(l) : l \in NameLists(Names, MaxNames)},
            exclude \in {NoList} \cup {Given(l) : l \in NameLists(Names, MaxNames)} :
            /\ ~isList => n = 1
            /\ args = [fn |-> "plot_chains",
                       core |-> [isList |-> isList, cores |-> cores],
                       pars |-> pars, exclude |-> exclude]
    /\ ret = None

PlotChains ==
    /\ pc = "call"
    /\ args.fn = "plot_chains"
    /\ ret' = SelectParams(args.core, args.pars, args.exclude)
    /\ pc' = "done"
    /\ UNCHANGED args

NextPlot == PlotChains

SpecPlot == InitPlot /\ [][NextPlot]_vars

----------------------------------------------------------------------------
(* compute_neff(core)                                         lines 331-341 *)

Bookkeeping == {"lnpost", "lnlike", "chain_accept", "pt_chain_accept"}
NeffNames == {"a", "b"} \cup Bookkeeping

\* integrated_time(chain, quiet=True)[0]: some positive autocorrelation time
Taus == {1, 2}

\* mutant: the parallel-tempering acceptance column is not skipped
SkippedNoPT(p) == p \in {"lnpost", "lnlike", "chain_accept"}

\* p in ['lnpost', 'lnlike', 'chain_accept', 'pt_chain_accept']
Skipped(p) == p \in {"lnpost", "lnlike", "chain_accept", "pt_chain_accept"}

\* d[k] = v on a dict
DictSet(d, k, v) == [x \in DOMAIN d \cup {k} |-> IF x = k THEN v ELSE d[x]]

\* for p in core.params: skip the bookkeeping columns, else
\* neffs[p] = len(chain) / integrated_time(chain, quiet=True)[0]
RECURSIVE NeffLoop(_, _, _)
NeffLoop(core, params, neffs) ==
    IF params = <<>> THEN neffs
    ELSE LET p == Head(params)
         IN IF Skipped(p) THEN NeffLoop(core, Tail(params), neffs)
            ELSE NeffLoop(core, Tail(params),
                          DictSet(neffs, p, Rat(core.nsamples, core.tau[p])))

ComputeNeffResult(core) == NeffLoop(core, core.params, <<>>)

InitNeff ==
    /\ pc = "call"
    /\ \E params \in NameLists(NeffNames, MaxNames + 1), n \in 1..MaxSamples :
         \E tau \in [Elems(params) -> Taus] :
            args = [fn |-> "compute_neff",
                    core |-> [params |-> params, nsamples |-> n, tau |-> tau]]
    /\ ret = None

ComputeNeff ==
    /\ pc = "call"
    /\ args.fn = "compute_neff"
    /\ ret' = ComputeNeffResult(args.core)
    /\ pc' = "done"
    /\ UNCHANGED args

NextNeff == ComputeNeff

SpecNeff == InitNeff /\ [][NextNeff]_vars

----------------------------------------------------------------------------
(* Properties of grubin *)

GrubinDone == pc = "done" /\ args.fn = "grubin"
GrubinRows == Len(GrubinData(args.core))

\* C1: for R >= M >= 2 the burn-in satisfies (R - burn) % M = 0 and
\* 0 <= burn < M, it is the smallest such number of leading rows, and the
\* rows left are split into M blocks of equal length.
C1_BurnDivides ==
    GrubinDone =>
        /\ (GrubinRows - ret.burn) % args.M = 0
        /\ 0 <= ret.burn /\ ret.burn < args.M
        /\ \A b \in 0..(ret.burn - 1) : (GrubinRows - b) % args.M # 0
        /\ Len(ret.data_split) = args.M
        /\ \A m \in 1..args.M :
              Len(ret.data_split[m]) * args.M = GrubinRows - ret.burn

C1_Witness == GrubinDone /\ ret.burn = 2 /\ args.M = 3

\* C2: the N of B, sm_sq and var_post is the number of rows per block,
\* N = (R - burn) / M.
C2_NIsRowsPerBlock ==
    GrubinDone =>
        /\ ret.N * args.M = GrubinRows - ret.burn
        /\ ret.N = Len(ret.data_split[1])

IdenticalBlocks ==
    \A m \in 1..args.M : ret.data_split[m] = ret.data_split[1]

\* C3 as stated: M identical blocks give var_post[p] = W[p] and Rhat[p] = 1.
C3_RhatExactlyOne ==
    (GrubinDone /\ IdenticalBlocks) =>
        \A p \in ParIdx :
            /\ ret.var_post[p] = ret.W[p]
            /\ ret.Rhat[p].kind = "num" => ret.Rhat[p].sq = RInt(1)

\* C3 amended: M identical blocks give B[p] = 0 and
\* var_post[p] = ((N - 1) / N) * W[p] for the N grubin uses, so Rhat[p]^2 is
\* (N - 1) / N, below 1, when W[p] > 0, and Rhat[p] is nan when W[p] = 0.
C3_RhatBelowOne ==
    (GrubinDone /\ IdenticalBlocks) =>
        \A p \in ParIdx :
            /\ ret.B[p] = RInt(0)
            /\ ret.var_post[p][1] * ret.N * ret.W[p][2]
                  = (ret.N - 1) * ret.W[p][1] * ret.var_post[p][2]
            /\ IF ret.W[p][1] # 0
               THEN /\ ret.Rhat[p].kind = "num"
                    /\ ret.Rhat[p].sq[1] * ret.N = (ret.N - 1) * ret.Rhat[p].sq[2]
                    /\ RLt(ret.Rhat[p].sq, RInt(1))
               ELSE ret.Rhat[p].kind = "nan"

C3_Witness ==
    /\ GrubinDone /\ IdenticalBlocks
    /\ Len(ret.data_split[1]) >= 2
    /\ \E p \in ParIdx : ret.W[p][1] # 0

\* column p holds one constant in the first block and another in the second
DisjointConstants(p) ==
    /\ args.M = 2
    /\ \A m \in 1..2 : \A n \in DOMAIN ret.data_split[m] :
          ret.data_split[m][n][p] = ret.data_split[m][1][p]
    /\ ret.data_split[1][1][p] # ret.data_split[2][1][p]

\* C9: two sub-chains holding different constants for parameter p give
\* Rhat[p] > 1 and put p's index in idx (threshold 1.01); in general idx is
\* the set of the indices p with var_post[p] / W[p] > threshold^2.
C9_DriftDetected ==
    GrubinDone =>
        /\ \A p \in ParIdx : DisjointConstants(p) =>
              /\ \/ ret.Rhat[p].kind = "inf"
                 \/ ret.Rhat[p].kind = "num" /\ RLt(RInt(1), ret.Rhat[p].sq)
              /\ (p - 1) \in ret.idx
        /\ ret.idx \subseteq {p - 1 : p \in ParIdx}
        /\ \A p \in ParIdx :
              (p - 1) \in ret.idx <=>
                 IF ret.W[p][1] = 0 THEN ret.var_post[p][1] > 0
                 ELSE ret.var_post[p][1] * ret.W[p][2]
                          * args.threshold[2] * args.threshold[2]
                      > args.threshold[1] * args.threshold[1]
                          * ret.W[p][1] * ret.var_post[p][2]

C9_Witness ==
    /\ GrubinDone
    /\ DisjointConstants(1) /\ 0 \in ret.idx
    /\ 1 \notin ret.idx /\ ret.Rhat[2].kind = "num"


----------------------------------------------------------------------------
(* Properties of pp_plot *)

PPDone == pc = "done" /\ args.fn = "pp_plot"
Scanned == args.subfolders
Readable(f) == f.ans \in {"param", "fallback"}

\* C4: when some ans.json cannot be read while others can (and every
\* readable one holds a usable key), that folder is reported as skipped,
\* every folder with a readable ans.json is still visited and contributes
\* exactly one truth, and the call does not abort.
C4_SkipContinues ==
    (/\ PPDone
     /\ \E i \in DOMAIN Scanned : Scanned[i].ans = "missing"
     /\ \E i \in DOMAIN Scanned : Readable(Scanned[i])
     /\ \A i \in DOMAIN Scanned : Scanned[i].ans # "nokey") =>
        /\ \A i \in DOMAIN Scanned :
              /\ Scanned[i].ans = "missing" =>
                    \E k \in DOMAIN ret.printed :
                        ret.printed[k] = <<"skipped", Scanned[i].num>>
              /\ Readable(Scanned[i]) =>
                    \E k \in DOMAIN ret.visited : ret.visited[k] = Scanned[i].num
        /\ Len(ret.answer_list)
              = Cardinality({i \in DOMAIN Scanned : Readable(Scanned[i])})
        /\ ret.raised = None

\* C5: whenever the number of chains (one per remaining folder) differs from
\* the number of truths collected, the call reports the mismatch and
\* returns None, without raising.
C5_MismatchReported ==
    (/\ PPDone
     /\ ret.raised # "KeyError"
     /\ Len(SlicesChain(ret.subfolders)) # Len(ret.answer_list)) =>
        /\ ret.outcome = "return None"
        /\ \E k \in DOMAIN ret.printed :
              ret.printed[k] = "Number of chains and number of truths are different."

\* C8: pvalue_i is the number of samples of realization i at 0-based
\* positions >= floor(0.25 * L) that are strictly below truth_i, divided by
\* the number of samples at those positions; so 0 <= pvalue_i <= 1.
C8_PValueFraction ==
    (PPDone /\ ret.outcome = "return") =>
        /\ Len(ret.pvalues) = Len(Scanned)
        /\ \A i \in DOMAIN Scanned :
              LET f == Scanned[i]
                  L == Len(f.chain)
                  kept == {j \in 1..L : L < 4 * j}
                  below == {j \in kept : f.chain[j] < f.truth}
              IN /\ kept # {}
                 /\ ret.pvalues[i][1] * Cardinality(kept)
                       = Cardinality(below) * ret.pvalues[i][2]
                 /\ ~RLt(ret.pvalues[i], RInt(0))
                 /\ ~RLt(RInt(1), ret.pvalues[i])

C8_Witness ==
    /\ PPDone /\ ret.outcome = "return"
    /\ Len(Scanned) = 2
    /\ Scanned[1].truth # Scanned[2].truth
    /\ \E i \in DOMAIN Scanned :
          LET f == Scanned[i]
          IN /\ Len(f.chain) = 4
             /\ f.chain[1] < f.truth
             /\ \E j \in 2..4 : f.chain[j] = f.truth
             /\ \E j \in 2..4 : f.chain[j] < f.truth

----------------------------------------------------------------------------
(* Properties of plot_chains *)

PlotDone == pc = "done" /\ args.fn = "plot_chains"

\* C6: with pars and exclude both given (here: both non-empty lists) the
\* call raises an error and selects no parameter.
C6_BothGivenRaises ==
    (/\ PlotDone
     /\ ~args.pars.isNone /\ args.pars.list # <<>>
     /\ ~args.exclude.isNone /\ args.exclude.list # <<>>) =>
        ret.outcome = "ValueError"

CommonNames ==
    {p \in Names : \A k \in DOMAIN args.core.cores : p \in Elems(args.core.cores[k].params)}

\* C10: for a list of cores and no pars, the parameters selected are those
\* common to all the cores, less the excluded ones, and removing excluded
\* names that are common to all the cores does not fail (exclude is None or
\* a non-empty list of common names).
C10_ListSelectsCommon ==
    (/\ PlotDone /\ args.core.isList /\ args.pars.isNone
     /\ args.exclude.isNone \/ args.exclude.list # <<>>
     /\ Elems(args.exclude.list) \subseteq CommonNames) =>
        /\ ret.outcome = "return"
        /\ Elems(ret.params) = CommonNames \ Elems(args.exclude.list)

----------------------------------------------------------------------------
(* Properties of compute_neff *)

NeffDone == pc = "done" /\ args.fn = "compute_neff"

\* C7: the keys of the mapping are the core's parameters less the
\* bookkeeping ones, and the value of key p is len(samples) / tau(p).
C7_NeffKeys ==
    NeffDone =>
        /\ DOMAIN ret = Elems(args.core.params) \ Bookkeeping
        /\ \A p \in DOMAIN ret :
              ret[p][1] * args.core.tau[p] = args.core.nsamples * ret[p][2]

C7_Witness ==
    /\ NeffDone
    /\ "pt_chain_accept" \in Elems(args.core.params)
    /\ "lnpost" \in Elems(args.core.params)
    /\ \E p \in DOMAIN ret : args.core.tau[p] = 2 /\ args.core.nsamples = 1

====
